---------------------------- MODULE Spec2Model ----------------------------
(***************************************************************************)
(* Model of the indexing notebook app/data_indexing.ipynb.                 *)
(*                                                                         *)
(* The notebook builds two Chroma collections: the text loop (cell         *)
(* 3de907a6) indexes the catalog records of text_data, the image loop      *)
(* (cell 37501ace) indexes the image files found under image_data.         *)
(*                                                                         *)
(* A Python string is the sequence of the code points of its characters    *)
(* ("Tên" is <<84, 234, 110>>), so that slices, lengths and comparisons    *)
(* count characters as Python does; U("...") writes an ASCII string        *)
(* that way.  Bytes are numbers in 0..255.  A collection is the sequence   *)
(* of the records it holds, in insertion order.                            *)
(***************************************************************************)
EXTENDS Integers, Sequences, FiniteSets, TLC

(***************************************************************************)
(* Bounds of the model.                                                    *)
(***************************************************************************)
MaxItems == 5
MaxFiles == 3
MaxJointItems == 3
MaxJointFiles == 2
MaxRuns == 2

(***************************************************************************)
(* String literals.                                                        *)
(***************************************************************************)
AsciiFromSpace ==
    " !\"#$%&'()*+,-./0123456789:;<=>?@ABCDEFGHIJKLMNOPQRSTUVWXYZ[\\]^_"
AsciiFromSmallA == "abcdefghijklmnopqrstuvwxyz{|}~"

\* the place of the character c in s, 0 if it is not in s
IndexIn(s, c) ==
    CHOOSE k \in 0..Len(s) :
        \/ k > 0 /\ SubSeq(s, k, k) = c
        \/ k = 0 /\ \A j \in 1..Len(s) : SubSeq(s, j, j) # c

Code(c) ==
    IF c = "\n" THEN 10
    ELSE IF IndexIn(AsciiFromSpace, c) > 0 THEN 31 + IndexIn(AsciiFromSpace, c)
    ELSE 96 + IndexIn(AsciiFromSmallA, c)

\* the code points of an ASCII string
U(s) == [i \in 1..Len(s) |-> Code(SubSeq(s, i, i))]

\* str(n), n a natural number
RECURSIVE StrOfInt(_)
StrOfInt(n) == IF n < 10 THEN <<48 + n>> ELSE StrOfInt(n \div 10) \o <<48 + (n % 10)>>

(***************************************************************************)
(* Python's slices, str.lower, str.endswith.                               *)
(***************************************************************************)
Max(a, b) == IF a >= b THEN a ELSE b
Min(a, b) == IF a <= b THEN a ELSE b

\* s[n:]
SliceFrom(s, n) == SubSeq(s, Min(n, Len(s)) + 1, Len(s))

\* s[:-n]
SliceDropLast(s, n) == SubSeq(s, 1, Max(Len(s) - n, 0))

\* str.lower of one character, on the alphabet of the model: Basic Latin,
\* Latin-1 Supplement, Latin Extended-A, O and U with horn, Latin Extended
\* Additional (code points 0..383, 416, 417, 431, 432, 7680..7935).  The
\* capital I with dot above (304) becomes two characters.
LowerChar(c) ==
    IF c >= 65 /\ c <= 90 THEN <<c + 32>>
    ELSE IF c >= 192 /\ c <= 222 /\ c # 215 THEN <<c + 32>>
    ELSE IF c = 304 THEN <<105, 775>>
    ELSE IF c = 376 THEN <<255>>
    ELSE IF ((c >= 256 /\ c <= 311) \/ (c >= 330 /\ c <= 375)) /\ c % 2 = 0 THEN <<c + 1>>
    ELSE IF ((c >= 313 /\ c <= 328) \/ (c >= 377 /\ c <= 382)) /\ c % 2 = 1 THEN <<c + 1>>
    ELSE IF c = 416 \/ c = 431 THEN <<c + 1>>
    ELSE IF c = 7838 THEN <<223>>
    ELSE IF ((c >= 7680 /\ c <= 7829) \/ (c >= 7840 /\ c <= 7935)) /\ c % 2 = 0 THEN <<c + 1>>
    ELSE <<c>>

RECURSIVE Lower(_)
Lower(s) == IF Len(s) = 0 THEN <<>> ELSE LowerChar(Head(s)) \o Lower(Tail(s))

EndsWith(s, suffix) ==
    /\ Len(s) >= Len(suffix)
    /\ SubSeq(s, Len(s) - Len(suffix) + 1, Len(s)) = suffix

\* cell e0ff090a
image_data_root == U("data\\images-1-1100")
image_extensions == <<U(".jpg"), U(".jpeg"), U(".png"), U(".bmp"), U(".gif")>>

\* file.lower().endswith(image_extensions)
IsImageFile(file) ==
    \E k \in 1..Len(image_extensions) : EndsWith(Lower(file), image_extensions[k])

(***************************************************************************)
(* os.path.  The notebook was written and run on Windows (os.name "nt",    *)
(* ntpath); on another system the same cells run with posixpath, where     *)
(* the backslash is no separator.  Paths are the relative paths os.walk    *)
(* yields under image_data (no UNC prefix).                                *)
(***************************************************************************)
Platforms == {"nt", "posix"}

IsSep(os, c) == c = 47 \/ (os = "nt" /\ c = 92)

\* the part of p after its drive ("C:")
NoDrive(os, p) ==
    IF os = "nt" /\ Len(p) >= 2 /\ p[2] = 58 THEN SubSeq(p, 3, Len(p)) ELSE p

Drive(os, p) == SubSeq(p, 1, Len(p) - Len(NoDrive(os, p)))

Basename(os, p) ==
    LET q  == NoDrive(os, p)
        ks == { k \in 1..Len(q) : IsSep(os, q[k]) }
    IN  IF ks = {} THEN q
        ELSE SubSeq(q, (CHOOSE k \in ks : \A j \in ks : j <= k) + 1, Len(q))

\* os.path.join(dir, name), name without a drive
PathJoin(os, dir, name) ==
    LET body == NoDrive(os, dir)
    IN  IF Len(name) > 0 /\ IsSep(os, name[1])
        THEN Drive(os, dir) \o name
        ELSE IF Len(body) = 0 \/ IsSep(os, body[Len(body)])
        THEN dir \o name
        ELSE dir \o (IF os = "nt" THEN <<92>> ELSE <<47>>) \o name

(***************************************************************************)
(* base64.b64encode(...).decode('utf-8')                                   *)
(***************************************************************************)
B64Alphabet == U("ABCDEFGHIJKLMNOPQRSTUVWXYZabcdefghijklmnopqrstuvwxyz0123456789+/")
B64Char(n) == B64Alphabet[n + 1]

RECURSIVE B64Encode(_)
B64Encode(bytes) ==
    IF Len(bytes) = 0 THEN <<>>
    ELSE IF Len(bytes) = 1 THEN
        <<B64Char(bytes[1] \div 4), B64Char((bytes[1] % 4) * 16), 61, 61>>
    ELSE IF Len(bytes) = 2 THEN
        <<B64Char(bytes[1] \div 4),
          B64Char((bytes[1] % 4) * 16 + bytes[2] \div 16),
          B64Char((bytes[2] % 16) * 4), 61>>
    ELSE
        <<B64Char(bytes[1] \div 4),
          B64Char((bytes[1] % 4) * 16 + bytes[2] \div 16),
          B64Char((bytes[2] % 16) * 4 + bytes[3] \div 64),
          B64Char(bytes[3] % 64)>>
        \o B64Encode(SubSeq(bytes, 4, Len(bytes)))

(***************************************************************************)
(* Inputs.  text_data is the list loaded from the catalog JSON (cell       *)
(* d0d221fb); image_data is what os.walk yields under the image folder,    *)
(* as the (subdir, file) pairs in the order the two nested loops of cell   *)
(* 37501ace visit them, each with the name of its directory (dir) and the  *)
(* bytes of the file on disk.                                              *)
(***************************************************************************)
Items ==
    { [Id |-> 1,  Name |-> U("Atlas"),   Description |-> U("A map")],
      [Id |-> 1,  Name |-> U("Atlas 2"), Description |-> <<>>],
      [Id |-> 12, Name |-> U("Codex"),   Description |-> U("Old laws")],
      [Id |-> 3,  Name |-> U("Primer"),  Description |-> U("First steps")] }

JointItems == { it \in Items : it.Id # 3 /\ Len(it.Description) > 0 }

\* a file of the directory dir of the image folder
InDir(os, dir, file, bytes) ==
    [dir |-> dir, subdir |-> PathJoin(os, image_data_root, dir),
     file |-> file, bytes |-> bytes]

\* the directory "sách_42" and the file "bìa.jpg"
Sach42 == U("s") \o <<225>> \o U("ch_42")
BiaJpg == U("b") \o <<236>> \o U("a.jpg")

Files(os) ==
    { InDir(os, U("prod_42"), U("cover.jpg"), <<255, 216, 255>>),
      InDir(os, U("prod_42"), U("back.JPEG"), <<255, 216>>),
      InDir(os, U("prod_7"), U("cover.jpg"), <<71>>),
      InDir(os, U("prod_7"), U("notes.txt"), <<104, 105>>),
      InDir(os, U("p1"), U("x.png"), <<137, 80, 78, 71>>),
      InDir(os, Sach42, BiaJpg, <<66, 77>>),
      [dir |-> IF os = "nt" THEN U("images-1-1100") ELSE image_data_root,
       subdir |-> image_data_root,
       file |-> U("logo.gif"), bytes |-> <<71, 73, 70, 56, 57>>] }

JointFiles(os) == { f \in Files(os) : f.file = U("cover.jpg") }

SeqsUpTo(S, n) == UNION { [1..k -> S] : k \in 0..n }

\* os.walk lists a directory once: the files of one directory are distinct
\* and come one after the other.
IsWalk(w) ==
    /\ \A i, j \in 1..Len(w) : i # j => w[i] # w[j]
    /\ \A i, j, k \in 1..Len(w) :
          (i < j /\ j < k /\ w[i].subdir = w[k].subdir) => w[j].subdir = w[i].subdir

Walks(S, n) == { w \in SeqsUpTo(S, n) : IsWalk(w) }

(***************************************************************************)
(* The state of the notebook.                                              *)
(***************************************************************************)
VARIABLES
    os_name,           \* the system the kernel runs on
    text_data,         \* cell d0d221fb
    image_data,        \* cell e0ff090a, as walked
    image_embedding,   \* the global of cell e2388251, rebound by cell 37501ace
    text_collection,   \* the persisted collection text_chroma_db
    image_collection,  \* the persisted collection image_chroma_db
    txt_pc,            \* where cell 3de907a6 stands
    txt_i,             \* index in text_data of the loop's item
    text,              \* the loop's text
    embedding,         \* the loop's embedding
    txt_err,           \* the exception that ended the cell, "none" if none
    txt_failed,        \* index of the item whose call raised, 0 if none
    txt_runs,          \* how many times the cell was started
    txt_gens,          \* generate_text_embedding calls of this run
    txt_adds,          \* text_collection.add calls of this run that returned
    txt_completed,     \* how many times the cell ran to its end
    img_pc,            \* where cell 37501ace stands
    img_i,             \* index in image_data of the loops' file
    base64_image,      \* the loop's base64_image
    img_err,
    img_failed,
    img_runs,
    img_gens,          \* generate_image_embedding calls of this run
    img_adds           \* image_collection.add calls of this run that returned

inputVars == <<os_name, text_data, image_data>>
textVars  == <<text_collection, txt_pc, txt_i, text, embedding, txt_err, txt_failed,
               txt_runs, txt_gens, txt_adds, txt_completed>>
imageVars == <<image_embedding, image_collection, img_pc, img_i, base64_image,
               img_err, img_failed, img_runs, img_gens, img_adds>>
vars == <<inputVars, textVars, imageVars>>

(***************************************************************************)
(* The collaborators.  The generators are functions of their input:        *)
(* an embedding is identified by the model and the input it was made from. *)
(***************************************************************************)
Generator == [kind |-> "ImageEmbeddingGenerator", input |-> <<>>]

\* the value of the name embedding before the text loop first binds it
Unbound == [kind |-> "unbound", input |-> <<>>]

generate_text_embedding(t) == [kind |-> "text_embedding", input |-> t]

generate_image_embedding(b64) == [kind |-> "image_embedding", input |-> b64]

HasId(coll, id) == \E k \in 1..Len(coll) : coll[k].id = id

\* an add that appends whatever the collection holds
CollectionAddAlways(coll, entry) == Append(coll, entry)

\* chromadb Collection.add: a record whose id the collection already holds
\* is ignored (no error, no overwrite); Collection.upsert is the call that
\* overwrites.
CollectionAdd(coll, entry) ==
    IF HasId(coll, entry.id) THEN coll ELSE Append(coll, entry)

(***************************************************************************)
(* Cell 3de907a6: the text loop.                                           *)
(***************************************************************************)
\* "Tên sách: " and "Nội dung sách: "
LabelName == U("T") \o <<234>> \o U("n s") \o <<225>> \o U("ch: ")
LabelDescription == U("N") \o <<7897>> \o U("i dung s") \o <<225>> \o U("ch: ")
Newline == U("\n")
Space == U(" ")

\* CompositeText with the two fields on one line
CompositeTextOneLine(name, description) ==
    LabelName \o name \o Space \o LabelDescription \o description

\* f"Tên sách: {item['Name']}\n" + f"Nội dung sách: {item['Description']}"
CompositeText(name, description) ==
    LabelName \o name \o Newline \o LabelDescription \o description

TextEntry(item, t, emb) ==
    [id        |-> StrOfInt(item.Id),
     embedding |-> emb,
     document  |-> t,
     metadata  |-> [id |-> StrOfInt(item.Id), name |-> item.Name,
                    description |-> item.Description]]

TxtIdle == txt_pc \in {"idle", "done", "error"}
ImgIdle == img_pc \in {"idle", "done", "error"}

TextStart ==
    /\ TxtIdle
    /\ txt_runs < MaxRuns
    /\ txt_runs' = txt_runs + 1
    /\ txt_i' = 1
    /\ txt_pc' = IF Len(text_data) = 0 THEN "done" ELSE "compose"
    /\ txt_completed' = IF Len(text_data) = 0 THEN txt_completed + 1 ELSE txt_completed
    /\ txt_err' = "none"
    /\ txt_failed' = 0
    /\ txt_gens' = 0
    /\ txt_adds' = 0
    /\ UNCHANGED <<text_collection, text, embedding, inputVars, imageVars>>

\* line 161 and the call of line 162: text is bound, the generator is called
\* and the cell is suspended in the await
TextCall ==
    /\ txt_pc = "compose"
    /\ text' = CompositeText(text_data[txt_i].Name, text_data[txt_i].Description)
    /\ txt_gens' = txt_gens + 1
    /\ txt_pc' = "await"
    /\ UNCHANGED <<text_collection, txt_i, embedding, txt_err, txt_failed, txt_runs,
                   txt_adds, txt_completed, inputVars, imageVars>>

\* line 162: the await returns and its result is bound to embedding
TextGenerate ==
    /\ txt_pc = "await"
    /\ embedding' = generate_text_embedding(text)
    /\ txt_pc' = "add"
    /\ UNCHANGED <<text_collection, txt_i, text, txt_err, txt_failed, txt_runs,
                   txt_gens, txt_adds, txt_completed, inputVars, imageVars>>

TxtAdvance(i) == IF i + 1 > Len(text_data) THEN "done" ELSE "compose"

\* the exception is caught and the loop goes on with the next item
TextGenerateFailsAndContinues ==
    /\ txt_pc = "await"
    /\ txt_pc' = TxtAdvance(txt_i)
    /\ txt_i' = IF txt_i + 1 > Len(text_data) THEN txt_i ELSE txt_i + 1
    /\ txt_err' = "generator"
    /\ txt_failed' = txt_i
    /\ UNCHANGED <<text_collection, text, embedding, txt_runs, txt_gens, txt_adds,
                   txt_completed, inputVars, imageVars>>

\* line 162: the await raises; nothing catches it, the cell ends
TextGenerateFails ==
    /\ txt_pc = "await"
    /\ txt_pc' = "error"
    /\ txt_err' = "generator"
    /\ txt_failed' = txt_i
    /\ UNCHANGED <<text_collection, txt_i, text, embedding, txt_runs, txt_gens,
                   txt_adds, txt_completed, inputVars, imageVars>>

\* lines 163-168, the call returns
TextAdd ==
    /\ txt_pc = "add"
    /\ text_collection' =
          CollectionAdd(text_collection, TextEntry(text_data[txt_i], text, embedding))
    /\ txt_adds' = txt_adds + 1
    /\ txt_pc' = TxtAdvance(txt_i)
    /\ txt_i' = IF txt_i + 1 > Len(text_data) THEN txt_i ELSE txt_i + 1
    /\ txt_completed' = IF txt_i + 1 > Len(text_data) THEN txt_completed + 1
                        ELSE txt_completed
    /\ UNCHANGED <<text, embedding, txt_err, txt_failed, txt_runs, txt_gens,
                   inputVars, imageVars>>

\* lines 163-168, the call raises
TextAddFails ==
    /\ txt_pc = "add"
    /\ txt_pc' = "error"
    /\ txt_err' = "store"
    /\ txt_failed' = txt_i
    /\ UNCHANGED <<text_collection, txt_i, text, embedding, txt_runs, txt_gens,
                   txt_adds, txt_completed, inputVars, imageVars>>

NextText ==
    \/ TextStart
    \/ TextCall
    \/ TextGenerate
    \/ TextGenerateFails
    \/ TextAdd
    \/ TextAddFails

(***************************************************************************)
(* Cell e2388251: the generators are constructed.  A cell runs only when   *)
(* no other cell of the kernel is running; run while image_embedding is    *)
(* the generator, the cell changes nothing.                                *)
(***************************************************************************)
ConstructGenerators ==
    /\ TxtIdle /\ ImgIdle
    /\ image_embedding # Generator
    /\ image_embedding' = Generator
    /\ UNCHANGED <<image_collection, img_pc, img_i, base64_image, img_err, img_failed,
                   img_runs, img_gens, img_adds, inputVars, textVars>>

(***************************************************************************)
(* Cell 2bf88a3d and cell 37501ace: the image loop.                        *)
(***************************************************************************)
FileBytes(full_path) ==
    LET f == CHOOSE f \in { image_data[k] : k \in 1..Len(image_data) } :
                 PathJoin(os_name, f.subdir, f.file) = full_path
    IN  f.bytes

image_to_base64(image_path) == B64Encode(FileBytes(image_path))

\* the slice taken one character early
ProductIdFromFourth(os, subdir) == SliceFrom(Basename(os, subdir), 4)

\* os.path.basename(subdir)[5:]
ProductId(os, subdir) == SliceFrom(Basename(os, subdir), 5)

\* os.path.basename(file)[:-4]
ImageId(os, file) == SliceDropLast(Basename(os, file), 4)

ImageEntry(os, f, emb) ==
    [id        |-> ImageId(os, f.file),
     embedding |-> emb,
     metadata  |-> [product_id |-> ProductId(os, f.subdir),
                    image_id   |-> ImageId(os, f.file)]]

ImageStart ==
    /\ ImgIdle
    /\ img_runs < MaxRuns
    /\ img_runs' = img_runs + 1
    /\ img_i' = 1
    /\ img_pc' = IF Len(image_data) = 0 THEN "done" ELSE "filter"
    /\ img_err' = "none"
    /\ img_failed' = 0
    /\ img_gens' = 0
    /\ img_adds' = 0
    /\ UNCHANGED <<image_embedding, image_collection, base64_image, inputVars, textVars>>

ImgAdvance(i) == IF i + 1 > Len(image_data) THEN "done" ELSE "filter"

\* lines 179-180
ImageFilter ==
    /\ img_pc = "filter"
    /\ IF IsImageFile(image_data[img_i].file)
       THEN /\ img_pc' = "read"
            /\ img_i' = img_i
       ELSE /\ img_pc' = ImgAdvance(img_i)
            /\ img_i' = IF img_i + 1 > Len(image_data) THEN img_i ELSE img_i + 1
    /\ UNCHANGED <<image_embedding, image_collection, base64_image, img_err, img_failed,
                   img_runs, img_gens, img_adds, inputVars, textVars>>

\* lines 181-182 and the call of line 183: base64_image is bound, then the
\* generator is called and the cell is suspended in the await, or
\* image_embedding is no generator any more and the attribute lookup raises
ImageCall ==
    /\ img_pc = "read"
    /\ base64_image' =
          image_to_base64(PathJoin(os_name, image_data[img_i].subdir,
                                   image_data[img_i].file))
    /\ IF image_embedding = Generator
       THEN /\ img_gens' = img_gens + 1
            /\ img_pc' = "await"
            /\ UNCHANGED <<img_err, img_failed>>
       ELSE /\ img_pc' = "error"
            /\ img_err' = "AttributeError"
            /\ img_failed' = img_i
            /\ UNCHANGED img_gens
    /\ UNCHANGED <<image_embedding, image_collection, img_i, img_runs, img_adds,
                   inputVars, textVars>>

\* ImageGenerate with the result also bound to the text loop's name, embedding
ImageGenerateSharedName ==
    /\ img_pc = "await"
    /\ image_embedding' = generate_image_embedding(base64_image)
    /\ embedding' = image_embedding'
    /\ img_pc' = "add"
    /\ UNCHANGED <<image_collection, img_i, base64_image, img_err, img_failed, img_runs,
                   img_gens, img_adds, inputVars,
                   text_collection, txt_pc, txt_i, text, txt_err, txt_failed,
                   txt_runs, txt_gens, txt_adds, txt_completed>>

\* line 183: the await returns and its result is bound to image_embedding,
\* the name that held the generator
ImageGenerate ==
    /\ img_pc = "await"
    /\ image_embedding' = generate_image_embedding(base64_image)
    /\ img_pc' = "add"
    /\ UNCHANGED <<image_collection, img_i, base64_image, img_err, img_failed, img_runs,
                   img_gens, img_adds, inputVars, textVars>>

\* line 183: the await raises
ImageGenerateFails ==
    /\ img_pc = "await"
    /\ img_pc' = "error"
    /\ img_err' = "generator"
    /\ img_failed' = img_i
    /\ UNCHANGED <<image_embedding, image_collection, img_i, base64_image, img_runs,
                   img_gens, img_adds, inputVars, textVars>>

\* lines 184-188, the call returns
ImageAdd ==
    /\ img_pc = "add"
    /\ image_collection' =
          CollectionAdd(image_collection,
                        ImageEntry(os_name, image_data[img_i], image_embedding))
    /\ img_adds' = img_adds + 1
    /\ img_pc' = ImgAdvance(img_i)
    /\ img_i' = IF img_i + 1 > Len(image_data) THEN img_i ELSE img_i + 1
    /\ UNCHANGED <<image_embedding, base64_image, img_err, img_failed, img_runs,
                   img_gens, inputVars, textVars>>

\* the exception is caught and the loops go on with the next file
ImageAddFailsAndContinues ==
    /\ img_pc = "add"
    /\ img_pc' = ImgAdvance(img_i)
    /\ img_i' = IF img_i + 1 > Len(image_data) THEN img_i ELSE img_i + 1
    /\ img_err' = "store"
    /\ img_failed' = img_i
    /\ UNCHANGED <<image_embedding, image_collection, base64_image, img_runs,
                   img_gens, img_adds, inputVars, textVars>>

\* lines 184-188, the call raises
ImageAddFails ==
    /\ img_pc = "add"
    /\ img_pc' = "error"
    /\ img_err' = "store"
    /\ img_failed' = img_i
    /\ UNCHANGED <<image_embedding, image_collection, img_i, base64_image, img_runs,
                   img_gens, img_adds, inputVars, textVars>>

NextImage ==
    \/ ConstructGenerators
    \/ ImageStart
    \/ ImageFilter
    \/ ImageCall
    \/ ImageGenerate
    \/ ImageGenerateFails
    \/ ImageAdd
    \/ ImageAddFails

(***************************************************************************)
(* Init: cells 5594d4a9 to 2bf88a3d have run against an empty store.       *)
(* walks gives, for each system, the image trees to start from.            *)
(***************************************************************************)
InitWith(texts, walks) ==
    /\ os_name \in DOMAIN walks
    /\ text_data \in texts
    /\ image_data \in walks[os_name]
    /\ image_embedding = Generator
    /\ text_collection = <<>>
    /\ image_collection = <<>>
    /\ txt_pc = "idle" /\ txt_i = 0 /\ text = <<>> /\ embedding = Unbound
    /\ txt_err = "none" /\ txt_failed = 0 /\ txt_runs = 0 /\ txt_gens = 0 /\ txt_adds = 0
    /\ txt_completed = 0
    /\ img_pc = "idle" /\ img_i = 0 /\ base64_image = <<>>
    /\ img_err = "none" /\ img_failed = 0 /\ img_runs = 0 /\ img_gens = 0 /\ img_adds = 0

Init ==
    InitWith(SeqsUpTo(JointItems, MaxJointItems),
             [os \in Platforms |-> Walks(JointFiles(os), MaxJointFiles)])

InitText == InitWith(SeqsUpTo(Items, MaxItems), [os \in {"nt"} |-> {<<>>}])

InitImage == InitWith({<<>>}, [os \in Platforms |-> Walks(Files(os), MaxFiles)])

Next == NextText \/ NextImage

\* the two loops, their steps interleaved
Spec == Init /\ [][Next]_vars

\* the text loop alone
SpecText == InitText /\ [][NextText]_vars

\* the image loop alone
SpecImage == InitImage /\ [][NextImage]_vars


(***************************************************************************)
(* Properties of the text loop.                                            *)
(***************************************************************************)
ItemId(k) == StrOfInt(text_data[k].Id)

\* the record the text loop hands to text_collection.add for an item
WrittenTextEntry(item) ==
    LET t == CompositeText(item.Name, item.Description)
    IN  TextEntry(item, t, generate_text_embedding(t))

Holds(coll, entry) == \E n \in 1..Len(coll) : coll[n] = entry

\* the last of the first n items of text_data that carries the id of item j
IsLastWithId(j, n) == \A k \in (j + 1)..n : text_data[k].Id # text_data[j].Id

\* C1: when two items of the input carry the same id and the loop has
\* processed both, the collection's entry for that id is the one written for
\* the later item.
C1_LaterDuplicateWins ==
    \A i, j \in 1..txt_adds :
        (i < j /\ text_data[i].Id = text_data[j].Id /\ IsLastWithId(j, txt_adds))
            => Holds(text_collection, WrittenTextEntry(text_data[j]))

\* C3, as claimed: a failing call skips only its item; when the loop has
\* ended, every item was attempted and every item but the failing one is in
\* the collection.
C3_FailureSkipsOnlyItsItem ==
    txt_pc \in {"done", "error"} =>
        /\ txt_gens = Len(text_data)
        /\ \A k \in 1..Len(text_data) :
              k # txt_failed => HasId(text_collection, ItemId(k))

\* C3, amended: a failing call ends the loop at its item: the items before
\* it were attempted and added and are in the collection, the failing item
\* is the last one attempted, and (in a first run) no item from the failing
\* one on is in the collection unless an earlier item carries its id.
C3_FailureEndsTheLoop ==
    txt_failed # 0 =>
        /\ txt_pc = "error"
        /\ txt_i = txt_failed
        /\ txt_gens = txt_failed
        /\ txt_adds = txt_failed - 1
        /\ \A k \in 1..(txt_failed - 1) : HasId(text_collection, ItemId(k))
        /\ txt_runs = 1 =>
              \A k \in txt_failed..Len(text_data) :
                  (\A h \in 1..(txt_failed - 1) : text_data[h].Id # text_data[k].Id)
                      => ~HasId(text_collection, ItemId(k))

\* five items, the third fails: three attempted, the first two added and
\* present, the fourth absent
C3_Witness ==
    /\ Len(text_data) = 5
    /\ txt_failed = 3
    /\ txt_runs = 1
    /\ txt_gens = 3
    /\ Len(text_collection) = 2
    /\ HasId(text_collection, ItemId(1)) /\ HasId(text_collection, ItemId(2))
    /\ ~HasId(text_collection, ItemId(4))

\* C5: after the loop has run to its end twice over the same input, the
\* collection holds exactly one entry for each id of the input, and it is
\* the one of the last write for that id.
C5_RerunKeepsLastWrite ==
    txt_completed = 2 =>
        \A j \in 1..Len(text_data) :
            /\ Cardinality({ n \in 1..Len(text_collection) :
                               text_collection[n].id = ItemId(j) }) = 1
            /\ IsLastWithId(j, Len(text_data))
                  => Holds(text_collection, WrittenTextEntry(text_data[j]))

Atlas == U("Atlas")
AMap == U("A map")
\* "Name: Atlas\nDescription: A map"
AtlasInEnglish == U("Name: Atlas\nDescription: A map")
\* "Tên sách: Atlas\nNội dung sách: A map"
AtlasInVietnamese ==
    <<84, 234, 110, 32, 115, 225, 99, 104, 58, 32>> \o U("Atlas\n")
        \o <<78, 7897, 105, 32, 100, 117, 110, 103, 32, 115, 225, 99, 104, 58, 32>>
        \o U("A map")

\* C6, as claimed: the composite text of name "Atlas" and description
\* "A map" is "Name: Atlas\nDescription: A map".
C6_EnglishLabels ==
    /\ (txt_pc \in {"await", "add"} /\ text_data[txt_i].Name = Atlas
            /\ text_data[txt_i].Description = AMap)
          => text = AtlasInEnglish
    /\ \A n \in 1..Len(text_collection) :
          (text_collection[n].metadata.name = Atlas
              /\ text_collection[n].metadata.description = AMap)
            => text_collection[n].document = AtlasInEnglish

\* the text is two lines, a label and the name, a label and the description
IsComposite(t, name, description) ==
    /\ t = <<84, 234, 110, 32, 115, 225, 99, 104, 58, 32>> \o name \o <<10>>
            \o <<78, 7897, 105, 32, 100, 117, 110, 103, 32, 115, 225, 99, 104, 58, 32>>
            \o description
    /\ (name = Atlas /\ description = AMap) => t = AtlasInVietnamese

\* C6, amended: the text fed to the generator (the text bound while the
\* call is awaited) and stored as the document is
\* "Tên sách: <name>\nNội dung sách: <description>"; for name "Atlas" and
\* description "A map" it is "Tên sách: Atlas\nNội dung sách: A map".
C6_CompositeText ==
    /\ txt_pc \in {"await", "add"} =>
          IsComposite(text, text_data[txt_i].Name, text_data[txt_i].Description)
    /\ txt_pc = "add" => embedding = generate_text_embedding(text)
    /\ \A n \in 1..Len(text_collection) :
          LET e == text_collection[n]
          IN  /\ IsComposite(e.document, e.metadata.name, e.metadata.description)
              /\ e.embedding = generate_text_embedding(e.document)

C6_Witness ==
    \E n \in 1..Len(text_collection) :
        /\ text_collection[n].metadata.name = Atlas
        /\ text_collection[n].metadata.description = AMap
        /\ text_collection[n].document = AtlasInVietnamese
        /\ text_collection[n].embedding.input = AtlasInVietnamese

(***************************************************************************)
(* Properties of the image loop.                                           *)
(***************************************************************************)
ImageFiles == { k \in 1..Len(image_data) : IsImageFile(image_data[k].file) }

\* the entry carries the embedding of the bytes of file f
MadeFrom(entry, f) == entry.embedding = generate_image_embedding(B64Encode(f.bytes))

\* the file name without its extension: the final dot and what follows removed
RECURSIVE Stem(_)
Stem(name) ==
    IF Len(name) = 0 THEN name
    ELSE IF name[Len(name)] = 46 THEN SubSeq(name, 1, Len(name) - 1)
    ELSE IF \E k \in 1..Len(name) : name[k] = 46
         THEN Stem(SubSeq(name, 1, Len(name) - 1))
         ELSE name

\* C2: when the image loop has ended and neither the generator nor the store
\* has failed, it has made one generation call for each image file of the
\* tree and each of them has its entry in the image collection.
C2_EveryImageIsIndexed ==
    (img_pc \in {"done", "error"} /\ img_err \notin {"generator", "store"}) =>
        /\ img_gens = Cardinality(ImageFiles)
        /\ \A k \in ImageFiles :
              HasId(image_collection, ImageId(os_name, image_data[k].file))

\* C4: the id and the image_id of the entry of an image file are the file
\* name without its extension.
C4_IdIsFileStem ==
    \A n \in 1..Len(image_collection) :
        \E k \in ImageFiles :
            /\ MadeFrom(image_collection[n], image_data[k])
            /\ image_collection[n].id = Stem(image_data[k].file)
            /\ image_collection[n].metadata.image_id = Stem(image_data[k].file)

Prod42 == U("prod_42")
FortyTwo == U("42")

\* C7: the product_id of the entry of an image file is the name of the
\* directory that holds the file, without its first five characters
\* (nothing is left of a shorter name); "prod_42" gives "42".
C7_ProductIdIsSlice ==
    \A n \in 1..Len(image_collection) :
        \E k \in ImageFiles :
            LET dir == image_data[k].dir
                pid == image_collection[n].metadata.product_id
            IN  /\ MadeFrom(image_collection[n], image_data[k])
                /\ Len(dir) >= 5 => SubSeq(dir, 1, 5) \o pid = dir
                /\ Len(dir) < 5 => pid = <<>>
                /\ dir = Prod42 => pid = FortyTwo

C7_Witness ==
    /\ \E n \in 1..Len(image_collection) :
          image_collection[n].metadata.product_id = FortyTwo
    /\ \E k \in ImageFiles : image_data[k].dir = Prod42

(***************************************************************************)
(* Properties of the two loops together.                                   *)
(***************************************************************************)
UniqueIds(coll) == \A m, n \in 1..Len(coll) : m # n => coll[m].id # coll[n].id

\* C8: each collection holds at most one entry per id.
C8_UniqueIds == UniqueIds(text_collection) /\ UniqueIds(image_collection)

\* the text loop has added an item whose id the collection held, and a
\* second run of the image loop has added the file the first run had added
C8_Witness ==
    /\ txt_runs = 1 /\ txt_adds > Len(text_collection)
    /\ img_runs = 2 /\ img_adds = 1 /\ Len(image_collection) = 1

\* the record the text loop writes for each item of the catalog
TextEntryOf == [it \in Items |-> WrittenTextEntry(it)]

\* the files the image loop takes for images, and the record it writes for
\* each, on each system
SupportedFiles == [os \in Platforms |-> { f \in Files(os) : IsImageFile(f.file) }]

ImageEntryOf ==
    [os \in Platforms |->
        [f \in SupportedFiles[os] |->
            ImageEntry(os, f, generate_image_embedding(B64Encode(f.bytes)))]]

\* what the text loop, run alone, leaves in an empty collection after the
\* first n items
RECURSIVE TextPassResult(_)
TextPassResult(n) ==
    IF n = 0 THEN <<>>
    ELSE CollectionAdd(TextPassResult(n - 1), TextEntryOf[text_data[n]])

\* what the image loop, run alone, leaves in an empty collection after the
\* first n files of the walk
RECURSIVE ImagePassResult(_)
ImagePassResult(n) ==
    IF n = 0 THEN <<>>
    ELSE IF image_data[n] \in SupportedFiles[os_name]
         THEN CollectionAdd(ImagePassResult(n - 1), ImageEntryOf[os_name][image_data[n]])
         ELSE ImagePassResult(n - 1)

\* the files the image loop is through with
ImgProcessed == IF img_pc = "done" THEN Len(image_data) ELSE Max(img_i - 1, 0)

\* C9: however the steps of the two loops interleave, the content of each
\* collection is what its own loop, run alone, leaves after the items it is
\* through with: in a first run exactly those, in a later run those of the
\* run that got furthest.
C9_PassesIndependent ==
    /\ IF txt_runs <= 1
       THEN text_collection = TextPassResult(txt_adds)
       ELSE \E n \in txt_adds..Len(text_data) : text_collection = TextPassResult(n)
    /\ IF img_runs <= 1
       THEN image_collection = ImagePassResult(ImgProcessed)
       ELSE \E n \in 0..Len(image_data) : image_collection = ImagePassResult(n)

\* both loops are suspended in the await of a generation call, the text
\* loop with an item added before
C9_Witness ==
    /\ txt_pc = "await" /\ txt_adds >= 1 /\ txt_runs = 1
    /\ img_pc = "await" /\ img_gens = 1 /\ img_runs = 1

\* C10: the step in which a call fails ends its loop and leaves the
\* collection as it is, and from then on the run makes no generation call
\* and no add and leaves the collection unchanged.
C10_HaltOnFirstError ==
    [][ /\ (txt_failed = 0 /\ txt_failed' # 0)
              => (txt_pc' = "error" /\ text_collection' = text_collection)
        /\ (txt_failed # 0 /\ txt_failed' # 0)
              => UNCHANGED <<text_collection, txt_i, txt_gens, txt_adds>>
        /\ (img_failed = 0 /\ img_failed' # 0)
              => (img_pc' = "error" /\ image_collection' = image_collection)
        /\ (img_failed # 0 /\ img_failed' # 0)
              => UNCHANGED <<image_collection, img_i, img_gens, img_adds>>
      ]_vars

\* the text loop has failed at an item with items before it, whose entries
\* are in the collection, and items after it; the image loop has failed at
\* its second file with the entry of the first in the collection
C10_Witness ==
    /\ txt_failed > 1 /\ txt_failed < Len(text_data)
    /\ txt_adds = txt_failed - 1 /\ Len(text_collection) >= 1
    /\ img_failed = 2 /\ Len(image_collection) = 1

==========================================================================
